---- MODULE Spec2Model ----
(***************************************************************************)
(* HistoryState of muscadine's tui package (src/tui/history_state.go):     *)
(* the time-ordered message store, the cursor (current / currentIndex),    *)
(* the viewport dimensions and the frame renderer.                         *)
(*                                                                         *)
(* Text is modelled as a sequence of runes.  A rune is one of              *)
(*   "x"   a narrow rune (display width 1)                                 *)
(*   "W"   an East-Asian wide rune (display width 2)                       *)
(*   " "   a space, ":" a colon, "\n" the line terminator                  *)
(*   ESC_RED / ESC_CLEAR   the two ANSI escape sequences, each one token   *)
(***************************************************************************)
EXTENDS Integers, Sequences, FiniteSets

\* ---------------------------------------------------------------- bounds
\* Most New calls in one behaviour.
MaxMsgs == 3
\* SetDimensions draws height from -1..MaxHeight.
MaxHeight == 2
\* RenderMessage is tried on every Content of at most MaxContentLen runes
MaxContentLen == 3
\* and on every width in -1..MaxRenderWidth.
MaxRenderWidth == 6
\* ------------------------------------------------------------- constants
defaultHistoryLength == 0

CurrentColor == <<"ESC_RED">>

ClearColor == <<"ESC_CLEAR">>

separator == <<":", " ">>

\* ---------------------------------------------------------------- inputs
\* The message of the p-th New call carries either a UUID of its own or the
\* UUID of the first message again: nothing in the code rejects a repeated
\* UUID.
FreshUUID(p) == <<"u1", "u2", "u3", "u4", "u5", "u6">>[p]

UUIDChoices(p) == {FreshUUID(p), FreshUUID(1)}

\* Username and Content vary with the call: a one-line message, a message
\* with a wide username that wraps and ends in a line terminator, and an
\* empty message from a nameless user.
UsernameOf(p) ==
    CASE p % 3 = 1 -> <<"x">>
      [] p % 3 = 2 -> <<"W">>
      [] OTHER     -> <<>>

ContentOf(p) ==
    CASE p % 3 = 1 -> <<"x", "x">>
      [] p % 3 = 2 -> <<"x", "W", "\n">>
      [] OTHER     -> <<>>

\* An arbor.ChatMessage.  ptr is the identity of the Go pointer: every New
\* call in a behaviour passes a fresh message, the p-th call the message p.
ChatMessage(u, t, p) ==
    [UUID |-> u, Username |-> UsernameOf(p), Content |-> ContentOf(p),
     Timestamp |-> t, ptr |-> p]

\* Timestamps: two send times, so that a message can be older than, as old
\* as, or newer than the ones already stored.
Timestamps == {1, 2}

Heights == -1..MaxHeight

\* Viewport widths: a degenerate one and one that lets a short message fit.
Widths == {0, 5}

\* ----------------------------------------------------------------- state
VARIABLES
    History,        \* []*arbor.ChatMessage
    renderWidth,
    renderHeight,
    current,        \* UUID of the selected message, "" when none
    currentIndex,
    received,       \* history variable: the messages passed to New, in call order
    op,             \* history variable: the operation called last
    pre,            \* history variable: <<current, currentIndex>> before that call
    failAt,         \* history variable: the Write of the last call that its
                    \* io.Writer failed, 0 when it failed none
    written,        \* the buffers the last call wrote to its io.Writer
    err,            \* the error the last call returned, "nil" when none
    panicked        \* the last call ended in a run-time panic

hvars == <<History, renderWidth, renderHeight, current, currentIndex>>

vars == <<History, renderWidth, renderHeight, current, currentIndex,
          received, op, pre, failAt, written, err, panicked>>

\* NewHistoryState: an empty History, zero values elsewhere.
Init ==
    /\ History = <<>>
    /\ Len(History) = defaultHistoryLength
    /\ renderWidth = 0
    /\ renderHeight = 0
    /\ current = ""
    /\ currentIndex = 0
    /\ received = <<>>
    /\ op = "NewHistoryState"
    /\ pre = <<"", 0>>
    /\ failAt = 0
    /\ written = <<>>
    /\ err = "nil"
    /\ panicked = FALSE

\* --------------------------------------------------------------- helpers
Min(a, b) == IF a < b THEN a ELSE b

Range(s) == {s[i] : i \in 1..Len(s)}

\* The less function New hands to sort.Slice.
Less(a, b) == a.Timestamp < b.Timestamp

RECURSIVE SortedOrders(_, _)
\* The orders (sequences of indexes of s) in which the elements of s at
\* the indexes I can be laid out so that no element is Less than one
\* before it: the next element is any one that nothing left is Less than.
SortedOrders(s, I) ==
    IF I = {} THEN {<<>>}
    ELSE UNION {{<<i>> \o q : q \in SortedOrders(s, I \ {i})} :
                   i \in {k \in I : \A j \in I : ~Less(s[j], s[k])}}

\* sort.Slice: "The sort is not guaranteed to be stable".  Every
\* arrangement of s that is ordered by Less is an outcome.
SortSlice(s) ==
    {[i \in 1..Len(s) |-> s[o[i]]] : o \in SortedOrders(s, 1..Len(s))}

\* Mutant of AppendAndSort: the sort.Slice call is left out.
AppendOnly(hist, message) == {Append(hist, message)}

\* New, lines 121-125: append, then sort the whole slice.
AppendAndSort(hist, message) == SortSlice(Append(hist, message))

\* New, lines 128-132: the scan does not break, so the last match wins;
\* idx is kept when nothing matches.
ScanForUUID(hist, uuid, idx) ==
    LET hits == {i \in 1..Len(hist) : hist[i].UUID = uuid}
    IN  IF hits = {} THEN idx
        ELSE (CHOOSE i \in hits : \A k \in hits : k <= i) - 1

\* Mutant of SelectOnNew: the current == "" test is left out, so every
\* insert re-points the selection at the new message.
SelectOnNewAlways(cur, idx, hist, message) ==
    <<message.UUID, ScanForUUID(hist, message.UUID, idx)>>

\* Mutant of SelectOnNew: the first message is not selected.
SelectOnNewNever(cur, idx, hist, message) == <<cur, idx>>

\* New, lines 126-133: the selection after the insert, <<current, currentIndex>>.
SelectOnNew(cur, idx, hist, message) ==
    IF cur = ""
    THEN <<message.UUID, ScanForUUID(hist, message.UUID, idx)>>
    ELSE <<cur, idx>>

\* --------------------------------------------------------------- actions
New ==
    /\ ~panicked
    /\ Len(received) < MaxMsgs
    /\ \E u \in UUIDChoices(Len(received) + 1), t \in Timestamps :
         LET message == ChatMessage(u, t, Len(received) + 1) IN
         \E sorted \in AppendAndSort(History, message) :
            LET sel == SelectOnNew(current, currentIndex, sorted, message) IN
            /\ History' = sorted
            /\ current' = sel[1]
            /\ currentIndex' = sel[2]
            /\ received' = Append(received, message)
    /\ op' = "New"
    /\ pre' = <<current, currentIndex>>
    /\ failAt' = 0
    /\ written' = <<>>
    /\ err' = "nil"
    /\ UNCHANGED <<renderWidth, renderHeight, panicked>>

\* Mutant of SetDimensions: a resize also sends the cursor index back to 0.
SetDimensionsResetsIndex ==
    /\ ~panicked
    /\ \E height \in Heights, width \in Widths :
         /\ renderHeight' = height
         /\ renderWidth' = width
    /\ currentIndex' = 0
    /\ op' = "SetDimensions"
    /\ pre' = <<current, currentIndex>>
    /\ failAt' = 0
    /\ written' = <<>>
    /\ err' = "nil"
    /\ UNCHANGED <<History, current, received, panicked>>

SetDimensions ==
    /\ ~panicked
    /\ \E height \in Heights, width \in Widths :
         /\ renderHeight' = height
         /\ renderWidth' = width
    /\ op' = "SetDimensions"
    /\ pre' = <<current, currentIndex>>
    /\ failAt' = 0
    /\ written' = <<>>
    /\ err' = "nil"
    /\ UNCHANGED <<History, current, currentIndex, received, panicked>>

\* slice[i] panics when i is outside 0..len(slice)-1.
IndexPanics(slice, i) == i < 0 \/ i >= Len(slice)

\* CursorDown reads History[currentIndex+1] at line 163 once both early
\* returns are passed.
CursorDownPanics(hist, idx) ==
    /\ ~(Len(hist) < 2)
    /\ ~(idx + 1 >= Len(hist))
    /\ IndexPanics(hist, idx + 1)

\* CursorUp reads History[currentIndex-1] at line 179.
CursorUpPanics(hist, idx) ==
    /\ ~(Len(hist) < 2)
    /\ ~(idx - 1 < 0)
    /\ IndexPanics(hist, idx - 1)

\* Mutant of CursorDownStep: at the bottom the cursor wraps to the top.
CursorDownWraps(hist, cur, idx) ==
    IF Len(hist) < 2 THEN <<cur, idx>>
    ELSE IF idx + 1 >= Len(hist) THEN <<hist[1].UUID, 0>>
    ELSE <<hist[(idx + 1) + 1].UUID, idx + 1>>

\* CursorDown, lines 155-164: <<current, currentIndex>> after the call.
\* currentIndex is 0-based as in the source; History is 1-based here.
CursorDownStep(hist, cur, idx) ==
    IF Len(hist) < 2 THEN <<cur, idx>>
    ELSE IF idx + 1 >= Len(hist) THEN <<cur, idx>>
    ELSE <<hist[(idx + 1) + 1].UUID, idx + 1>>

\* Mutant of CursorUpStep: the index moves, the selection does not follow.
CursorUpKeepsCurrent(hist, cur, idx) ==
    IF Len(hist) < 2 THEN <<cur, idx>>
    ELSE IF idx - 1 < 0 THEN <<cur, idx>>
    ELSE <<cur, idx - 1>>

\* Mutant of CursorUpStep: the index is decremented before the test at the
\* top.
CursorUpUnderflows(hist, cur, idx) ==
    IF Len(hist) < 2 THEN <<cur, idx>>
    ELSE IF idx - 1 < 0 THEN <<cur, idx - 1>>
    ELSE <<hist[(idx - 1) + 1].UUID, idx - 1>>

\* CursorUp, lines 171-180.
CursorUpStep(hist, cur, idx) ==
    IF Len(hist) < 2 THEN <<cur, idx>>
    ELSE IF idx - 1 < 0 THEN <<cur, idx>>
    ELSE <<hist[(idx - 1) + 1].UUID, idx - 1>>

CursorDown ==
    /\ ~panicked
    /\ IF CursorDownPanics(History, currentIndex)
       THEN /\ panicked' = TRUE
            /\ UNCHANGED <<current, currentIndex>>
       ELSE LET sel == CursorDownStep(History, current, currentIndex) IN
            /\ panicked' = FALSE
            /\ current' = sel[1]
            /\ currentIndex' = sel[2]
    /\ op' = "CursorDown"
    /\ pre' = <<current, currentIndex>>
    /\ failAt' = 0
    /\ written' = <<>>
    /\ err' = "nil"
    /\ UNCHANGED <<History, renderWidth, renderHeight, received>>

CursorUp ==
    /\ ~panicked
    /\ IF CursorUpPanics(History, currentIndex)
       THEN /\ panicked' = TRUE
            /\ UNCHANGED <<current, currentIndex>>
       ELSE LET sel == CursorUpStep(History, current, currentIndex) IN
            /\ panicked' = FALSE
            /\ current' = sel[1]
            /\ currentIndex' = sel[2]
    /\ op' = "CursorUp"
    /\ pre' = <<current, currentIndex>>
    /\ failAt' = 0
    /\ written' = <<>>
    /\ err' = "nil"
    /\ UNCHANGED <<History, renderWidth, renderHeight, received>>

\* ---------------------------------------------------------- line wrapping
\* runewidth.RuneWidth on the runes of the model.
RuneWidth(r) == IF r = "W" THEN 2 ELSE 1

\* Mutant of StringWidth: the runes are counted, as len([]rune(s)) would.
RuneCount(s) == Len(s)

RECURSIVE StringWidth(_)
\* runewidth.StringWidth: the sum of the rune widths.
StringWidth(s) ==
    IF s = <<>> THEN 0 ELSE RuneWidth(Head(s)) + StringWidth(Tail(s))

RECURSIVE WrapFrom(_, _, _, _, _)
\* The loop of runewidth.Wrap from rune i on, with the running column
\* `width` and the text `out` built so far.
WrapFrom(s, i, width, out, w) ==
    IF i > Len(s) THEN out
    ELSE LET r == s[i]
             cw == RuneWidth(r)
         IN  IF r = "\n" THEN WrapFrom(s, i + 1, 0, Append(out, r), w)
             ELSE IF width + cw > w
                  THEN WrapFrom(s, i + 1, cw, out \o <<"\n", r>>, w)
                  ELSE WrapFrom(s, i + 1, width + cw, Append(out, r), w)

\* runewidth.Wrap(s, w): a line terminator goes in before the rune that
\* would pass column w.
Wrap(s, w) == WrapFrom(s, 1, 0, <<>>, w)

RECURSIVE SplitAfter(_)
\* strings.SplitAfter(s, "\n"): the pieces of s, each ending with its "\n";
\* the last piece is what follows the last "\n" (empty when s ends in one).
SplitAfter(s) ==
    LET nls == {i \in 1..Len(s) : s[i] = "\n"} IN
    IF nls = {} THEN <<s>>
    ELSE LET i == CHOOSE k \in nls : \A j \in nls : k <= j
         IN  <<SubSeq(s, 1, i)>> \o SplitAfter(SubSeq(s, i + 1, Len(s)))

\* strings.Repeat(" ", n)
Spaces(n) == [i \in 1..n |-> " "]

\* Mutant of EnsureNewline: the terminator is not added.
EnsureNewlineSkipped(wrappedLines) == wrappedLines

\* RenderMessage, lines 79-83: the last wrapped line gets its terminator.
EnsureNewline(wrappedLines) ==
    LET n == Len(wrappedLines)
        lastLine == wrappedLines[n]
    IN  IF (Len(lastLine) > 0 /\ lastLine[Len(lastLine)] # "\n") \/ Len(lastLine) = 0
        THEN [wrappedLines EXCEPT ![n] = lastLine \o <<"\n">>]
        ELSE wrappedLines

\* Mutant of Highlight: every line of a selected message gets both markers.
HighlightEachLine(cur, message, wrappedLines) ==
    IF cur = message.UUID
    THEN [i \in 1..Len(wrappedLines) |->
             CurrentColor \o wrappedLines[i] \o ClearColor]
    ELSE wrappedLines

\* RenderMessage, lines 84-87: the colour markers around a selected message.
Highlight(cur, message, wrappedLines) ==
    IF cur = message.UUID
    THEN LET first == [wrappedLines EXCEPT ![1] = CurrentColor \o wrappedLines[1]]
         IN  [first EXCEPT ![Len(first)] = first[Len(first)] \o ClearColor]
    ELSE wrappedLines

\* RenderMessage(message, width) on a HistoryState whose Current() is cur:
\* the rows of output, each a sequence of runes.
RenderMessage(cur, message, width) ==
    LET usernameWidth == StringWidth(message.Username)
        separatorWidth == StringWidth(separator)
        firstLinePrefix == message.Username \o separator
        otherLinePrefix == Spaces(usernameWidth + separatorWidth)
        messageRenderWidth == width - (usernameWidth + separatorWidth)
        wrapped == Wrap(message.Content, messageRenderWidth)
        wrappedLines ==
            Highlight(cur, message, EnsureNewline(SplitAfter(wrapped)))
    IN  [i \in 1..Len(wrappedLines) |->
            IF i = 1 THEN firstLinePrefix \o wrappedLines[1]
            ELSE otherLinePrefix \o wrappedLines[i]]

\* ------------------------------------------------------------ frame render
\* slice[low:] panics when low is outside 0..len(slice).
SliceFromPanics(slice, low) == low < 0 \/ low > Len(slice)

\* lastNElems(slice, n); n is not negative where this is used.
lastNElems(slice, n) ==
    IF n >= Len(slice) THEN slice
    ELSE SubSeq(slice, (Len(slice) - n) + 1, Len(slice))

\* Mutant of lastNElemsBytes: nothing is cut off.
lastNElemsBytesAll(slice, n) == slice

\* Mutant of lastNElemsBytes: the first n elements are kept, not the last.
lastNElemsBytesHead(slice, n) ==
    IF n >= Len(slice) THEN slice ELSE SubSeq(slice, 1, n)

\* lastNElemsBytes(slice, n)
lastNElemsBytes(slice, n) ==
    IF n >= Len(slice) THEN slice
    ELSE SubSeq(slice, (Len(slice) - n) + 1, Len(slice))

\* Render panics at line 100 (slice bounds out of range) or at line 101
\* (makeslice: len out of range) exactly when the height is negative.
RenderPanics(hist, height) ==
    \/ (~(height >= Len(hist)) /\ SliceFromPanics(hist, Len(hist) - height))
    \/ height < 0

\* Mutant of MakeLines: make([][]byte, 0, n), no nil buffer in front.
MakeNoLines(n) == <<>>

\* make([][]byte, n): n nil buffers.  msg is a history field: the ptr of
\* the message a buffer was rendered from, 0 for a nil buffer.
MakeLines(n) == [i \in 1..n |-> [msg |-> 0, bytes |-> <<>>]]

RECURSIVE AppendMessages(_, _, _, _, _)
\* Render, lines 103-106: the loop over renderableHist from its k-th
\* element on.
AppendMessages(lines, renderableHist, k, cur, width) ==
    IF k > Len(renderableHist) THEN lines
    ELSE LET message == renderableHist[k]
             rows == RenderMessage(cur, message, width)
             tagged == [i \in 1..Len(rows) |->
                           [msg |-> message.ptr, bytes |-> rows[i]]]
         IN  AppendMessages(lines \o tagged, renderableHist, k + 1, cur, width)

\* Render, lines 100-108: the buffers Render is about to write, in order.
RenderedHistLines(hist, height, width, cur) ==
    LET renderableHist == lastNElems(hist, height)
        all == AppendMessages(MakeLines(height), renderableHist, 1, cur, width)
    IN  lastNElemsBytes(all, height)

\* Mutant of WriteLines: a failed Write is skipped and the loop goes on.
WriteLinesGoesOn(lines, k) ==
    IF k = 0 THEN <<lines, "nil">>
    ELSE <<SubSeq(lines, 1, k - 1) \o SubSeq(lines, k + 1, Len(lines)),
           "write error">>

\* Render, lines 110-116: the buffers written and the error returned when
\* the k-th Write fails (k = 0: none fails).
WriteLines(lines, k) ==
    IF k = 0 THEN <<lines, "nil">>
    ELSE <<SubSeq(lines, 1, k - 1), "write error">>

\* Render(target).  The writer is the input: one that never fails, or one
\* whose k-th Write returns an error.
Render ==
    /\ ~panicked
    /\ op' = "Render"
    /\ pre' = <<current, currentIndex>>
    /\ UNCHANGED <<History, renderWidth, renderHeight, current, currentIndex, received>>
    /\ IF RenderPanics(History, renderHeight)
       THEN /\ panicked' = TRUE
            /\ failAt' = 0
            /\ written' = <<>>
            /\ err' = "nil"
       ELSE LET lines == RenderedHistLines(History, renderHeight, renderWidth, current) IN
            \E k \in 0..Len(lines) :
               LET out == WriteLines(lines, k) IN
               /\ panicked' = FALSE
               /\ failAt' = k
               /\ written' = out[1]
               /\ err' = out[2]

Next ==
    \/ New
    \/ SetDimensions
    \/ CursorDown
    \/ CursorUp
    \/ Render

Spec == Init /\ [][Next]_vars

\* ------------------------------------------------- RenderMessage on its own
\* RenderMessage is exported: it is called here on one message of any
\* Username and Content, at any width, on a HistoryState that has this
\* message selected, another one, or none.
Runes == {"x", "W", "\n"}

Contents == UNION {[1..n -> Runes] : n \in 0..MaxContentLen}

Usernames == {<<>>, <<"x">>, <<"W">>, <<"x", "W">>}

RenderWidths == -1..MaxRenderWidth

InitRM ==
    /\ \E un \in Usernames, c \in Contents :
          History = <<[UUID |-> "u1", Username |-> un, Content |-> c,
                       Timestamp |-> 1, ptr |-> 1]>>
    /\ received = History
    /\ renderWidth \in RenderWidths
    /\ renderHeight = 0
    /\ current \in {"", "u1", "u2"}
    /\ currentIndex = 0
    /\ op = "New"
    /\ pre = <<"", 0>>
    /\ failAt = 0
    /\ written = <<>>
    /\ err = "nil"
    /\ panicked = FALSE

\* RenderMessage(History[0], renderWidth): the rows returned are kept in
\* written.
RenderMessageCall ==
    /\ op # "RenderMessage"
    /\ LET message == History[1]
           rows == RenderMessage(current, message, renderWidth)
       IN  written' = [i \in 1..Len(rows) |->
                          [msg |-> message.ptr, bytes |-> rows[i]]]
    /\ op' = "RenderMessage"
    /\ pre' = <<current, currentIndex>>
    /\ failAt' = 0
    /\ err' = "nil"
    /\ UNCHANGED <<History, renderWidth, renderHeight, current, currentIndex,
                   received, panicked>>

NextRM == RenderMessageCall

SpecRM == InitRM /\ [][NextRM]_vars

\* ================================================================ claims
\* The messages of History have pairwise distinct UUIDs (none is empty:
\* no input UUID is).
DistinctUUIDs ==
    \A i, j \in 1..Len(History) : i # j => History[i].UUID # History[j].UUID

\* C1: after every New, interleaved with the other operations, History
\* holds exactly the messages passed to New so far, each once, and is in
\* ascending Timestamp order.
C1_HistoryCompleteAndSorted ==
    /\ Len(History) = Len(received)
    /\ \A p \in 1..Len(received) :
          Cardinality({i \in 1..Len(History) : History[i] = received[p]}) = 1
    /\ \A i, j \in 1..Len(History) :
          i < j => History[i].Timestamp <= History[j].Timestamp

\* A New call has just stored a third message, older than the first one
\* and with the first one's UUID again.
C1_Witness ==
    /\ op = "New"
    /\ Len(received) = 3
    /\ received[3].Timestamp < received[1].Timestamp
    /\ received[3].UUID = received[1].UUID

\* Messages of equal Timestamp are in History in the order of their New
\* calls.
ArrivalOrderKept ==
    \A i, j \in 1..Len(History) :
        (i < j /\ History[i].Timestamp = History[j].Timestamp)
            => History[i].ptr < History[j].ptr

\* C2: of two messages with equal Timestamp the one passed to New earlier
\* is at the lower index of History, after every New call.
C2_SortIsStable == op = "New" => ArrivalOrderKept

\* C3: whenever current is not empty (the UUIDs being distinct),
\* History[currentIndex].UUID = current.  Stated of the states in which
\* no sort has reordered equal timestamps, so that it does not rest on C2.
C3_IndexMatchesCurrent ==
    (current # "" /\ DistinctUUIDs /\ ArrivalOrderKept)
        => /\ ~IndexPanics(History, currentIndex)
           /\ History[currentIndex + 1].UUID = current

\* C4: Current() is "" in every state before the first New, and right
\* after the first New it is the UUID of the message passed to it.
C4_CurrentEmptyUntilFirstNew ==
    /\ Len(received) = 0 => current = ""
    /\ (op = "New" /\ Len(received) = 1) => current = received[1].UUID

\* The first New has just returned and selected its message.
C4_Witness ==
    /\ op = "New"
    /\ Len(received) = 1
    /\ pre[1] = ""
    /\ current = "u1"

\* C5: once current is not empty, no New, SetDimensions or Render call
\* changes it.
C5_CurrentChangesOnlyByCursor ==
    [][(current # "" /\ op' \in {"New", "SetDimensions", "Render"})
          => current' = current]_vars

\* A New call has just put an older message in front of the selected one
\* and the selection is still the one it was.
C5_Witness ==
    /\ op = "New"
    /\ pre[1] # ""
    /\ current = pre[1]
    /\ Len(History) >= 2
    /\ History[1] = received[Len(received)]
    /\ History[2].UUID = current

\* C6: CursorDown changes nothing when len(History) < 2 or currentIndex is
\* the last index, CursorUp changes nothing when len(History) < 2 or
\* currentIndex is 0; neither ends in an error or a panic.
C6_CursorNoOpAtBoundary ==
    [][/\ (op' = "CursorDown"
            /\ (Len(History) < 2 \/ currentIndex = Len(History) - 1))
          => UNCHANGED hvars
       /\ (op' = "CursorUp" /\ (Len(History) < 2 \/ currentIndex = 0))
          => UNCHANGED hvars
       /\ op' \in {"CursorDown", "CursorUp"} => (err' = "nil" /\ ~panicked')]_vars

\* CursorDown has just been called with the cursor on the last of at least
\* two messages.
C6_Witness ==
    /\ op = "CursorDown"
    /\ Len(History) >= 2
    /\ pre[2] = Len(History) - 1
    /\ currentIndex = pre[2]
    /\ current = pre[1]

\* The index in History of the message whose UUID is Current().
PosOfCurrent == CHOOSE i \in 1..Len(History) : History[i].UUID = current

\* C7: with at least 2 messages (of distinct UUIDs), CursorDown selects the
\* entry right after the selected message, or leaves Current() alone when
\* that is the newest; CursorUp selects the entry right before it, or
\* leaves Current() alone when that is the oldest.  Stated of the states in which no sort has
\* reordered equal timestamps.
C7_CursorRelativeToSelected ==
    [][(Len(History) >= 2 /\ DistinctUUIDs /\ ArrivalOrderKept /\ current # "")
          => /\ op' = "CursorDown"
                => IF PosOfCurrent < Len(History)
                   THEN current' = History[PosOfCurrent + 1].UUID
                   ELSE current' = current
             /\ op' = "CursorUp"
                => IF PosOfCurrent > 1
                   THEN current' = History[PosOfCurrent - 1].UUID
                   ELSE current' = current]_vars

\* C8: with at least 2 messages (of distinct UUIDs), CursorUp or
\* CursorDown, applied to the state, changes Current().  Stated of the
\* states in which no sort has reordered equal timestamps.
C8_NavigationAvailable ==
    (Len(History) >= 2 /\ DistinctUUIDs /\ ArrivalOrderKept)
        => \/ (~CursorUpPanics(History, currentIndex)
                 /\ CursorUpStep(History, current, currentIndex)[1] # current)
           \/ (~CursorDownPanics(History, currentIndex)
                 /\ CursorDownStep(History, current, currentIndex)[1] # current)

\* The ptrs of the last n entries of History (of all when there are fewer).
LastPtrs(n) ==
    {History[i].ptr : i \in {k \in 1..Len(History) : k > Len(History) - n}}

\* C9: for renderHeight >= 0, one Render call writes at most renderHeight
\* lines, and every line it writes was rendered from one of the last
\* renderHeight entries of History.  (A nil buffer writes no line.)
C9_RenderBounded ==
    (op = "Render" /\ renderHeight >= 0)
        => /\ ~panicked
           /\ Len(written) <= renderHeight
           /\ \A k \in 1..Len(written) :
                 written[k].bytes # <<>>
                    => /\ written[k].msg \in LastPtrs(renderHeight)
                       /\ \E m \in Range(History) :
                             /\ m.ptr = written[k].msg
                             /\ written[k].bytes \in
                                   Range(RenderMessage(current, m, renderWidth))

\* Render has just filled a viewport that is shorter than the History and
\* than the lines of the messages it took.
C9_Witness ==
    /\ op = "Render"
    /\ err = "nil"
    /\ renderHeight >= 1
    /\ Len(History) > renderHeight
    /\ Len(written) = renderHeight
    /\ \A k \in 1..Len(written) : written[k].bytes # <<>>
    /\ \E p \in LastPtrs(renderHeight) : \A k \in 1..Len(written) : written[k].msg # p

RECURSIVE Concat(_)
\* The concatenation of a sequence of sequences.
Concat(ss) == IF ss = <<>> THEN <<>> ELSE Head(ss) \o Concat(Tail(ss))

\* The last n elements of s (all of s when it has fewer).
Suffix(s, n) == SubSeq(s, Len(s) - Min(n, Len(s)) + 1, Len(s))

\* L of C10: the rows of the last min(renderHeight, len(History)) messages,
\* oldest message first.
VisibleRows ==
    Concat([i \in 1..Min(renderHeight, Len(History)) |->
               RenderMessage(current,
                             History[Len(History) - Min(renderHeight, Len(History)) + i],
                             renderWidth)])

\* The message lines among the buffers written: the ones that are not empty.
RECURSIVE MessageLines(_)
MessageLines(bufs) ==
    IF bufs = <<>> THEN <<>>
    ELSE IF Head(bufs).bytes = <<>> THEN MessageLines(Tail(bufs))
    ELSE <<Head(bufs).bytes>> \o MessageLines(Tail(bufs))

\* C10: with a writer that never fails, the message lines Render writes
\* are the last min(renderHeight, len(L)) rows of L, in order.
C10_RenderWritesVisibleWindow ==
    (op = "Render" /\ ~panicked /\ err = "nil")
        => MessageLines(written) = Suffix(VisibleRows, renderHeight)

\* Render has just written a window that starts inside a message: rows of
\* two messages, the older one cut.
C10_Witness ==
    /\ op = "Render"
    /\ err = "nil"
    /\ ~panicked
    /\ renderHeight = 2
    /\ Len(VisibleRows) > 2
    /\ Len(written) = 2
    /\ written[1].msg # 0
    /\ written[2].msg # 0
    /\ written[1].msg # written[2].msg

\* C11: when the k-th Write of a Render call fails, Render returns that
\* error and the buffers written are exactly the k-1 before it; when none
\* fails Render returns nil (and has written every buffer).
C11_RenderStopsAtFirstFailure ==
    (op = "Render" /\ ~panicked)
        => LET lines == RenderedHistLines(History, renderHeight, renderWidth,
                                          current)
           IN  IF failAt = 0
               THEN err = "nil" /\ written = lines
               ELSE /\ err = "write error"
                    /\ Len(written) = failAt - 1
                    /\ \A i \in 1..Len(written) : written[i] = lines[i]

\* The first of two Writes has failed: nothing is written, the second
\* Write is not tried.
C11_Witness ==
    /\ op = "Render"
    /\ failAt = 1
    /\ renderHeight = 2
    /\ Len(History) >= 1
    /\ written = <<>>
    /\ err = "write error"

\* C12: with a writer that never fails, Render runs to completion and
\* returns nil, whatever height and width SetDimensions was given.
C12_RenderTotal ==
    (op = "Render" /\ failAt = 0) => (~panicked /\ err = "nil")

\* The rows a RenderMessage call has returned.
Rows == [i \in 1..Len(written) |-> written[i].bytes]

\* The display width of a text: a wide rune takes two columns.
DisplayWidth(s) == Len(s) + Cardinality({i \in 1..Len(s) : s[i] = "W"})

\* s begins with p.
HasPrefix(s, p) == Len(s) >= Len(p) /\ SubSeq(s, 1, Len(p)) = p

\* s ends with p.
HasSuffix(s, p) ==
    Len(s) >= Len(p) /\ SubSeq(s, Len(s) - Len(p) + 1, Len(s)) = p

\* s without the colour markers.
Unmarked(s) == SelectSeq(s, LAMBDA r : r \notin {"ESC_RED", "ESC_CLEAR"})

\* How often the rune r occurs in the rows.
Occurrences(r) ==
    Cardinality({<<i, j>> \in (1..Len(Rows)) \X (1..Len(Concat(Rows))) :
                    j <= Len(Rows[i]) /\ Rows[i][j] = r})

\* C13: the first row begins with "<Username>: "; every later row begins
\* with exactly display-width(Username)+2 spaces, and what follows the
\* gutters, row after row, is the wrapped Content; selected or not.
C13_StableGutter ==
    op = "RenderMessage"
        => LET m == History[1]
               g == DisplayWidth(m.Username) + 2
               gutter(i) == IF i = 1 THEN Len(m.Username) + 2 ELSE g
               body == [i \in 1..Len(Rows) |->
                           SubSeq(Rows[i], gutter(i) + 1, Len(Rows[i]))]
           IN  /\ Len(Rows) >= 1
               /\ HasPrefix(Rows[1], m.Username \o <<":", " ">>)
               /\ \A i \in 2..Len(Rows) :
                     /\ Len(Rows[i]) > g
                     /\ \A j \in 1..g : Rows[i][j] = " "
                     /\ Rows[i][g + 1] # " "
               /\ Unmarked(Concat(body)) = Wrap(m.Content, renderWidth - g) \o <<"\n">>

\* The selected message of a wide-named user has been rendered on three
\* rows or more.
C13_Witness ==
    /\ op = "RenderMessage"
    /\ current = History[1].UUID
    /\ History[1].Username = <<"x", "W">>
    /\ Len(written) >= 3

\* C14 as claimed: the last row ends with '\n', selected or not.
C14_LastRowEndsWithNewline ==
    op = "RenderMessage" => HasSuffix(Rows[Len(Rows)], <<"\n">>)

\* C14, amended: the last row of a message that is not selected ends with
\* '\n'; the last row of the selected message ends with '\n' followed by
\* ClearColor.
C14_LastRowTerminated ==
    op = "RenderMessage"
        => IF current = History[1].UUID
           THEN HasSuffix(Rows[Len(Rows)], <<"\n">> \o ClearColor)
           ELSE HasSuffix(Rows[Len(Rows)], <<"\n">>)

\* A selected message with an empty Content and one whose Content ends in
\* a line terminator are among the cases: here the latter, rendered.
C14_Witness ==
    /\ op = "RenderMessage"
    /\ current = History[1].UUID
    /\ History[1].Content = <<"x", "\n">>
    /\ Len(written) = 2

\* C15 as claimed: the first row of the selected message starts with
\* CurrentColor and its last row ends with ClearColor, each marker once in
\* the block; no marker in the rows of a message that is not selected.
C15_MarkersAroundBlock ==
    op = "RenderMessage"
        => IF current = History[1].UUID
           THEN /\ HasPrefix(Rows[1], CurrentColor)
                /\ HasSuffix(Rows[Len(Rows)], ClearColor)
                /\ Occurrences("ESC_RED") = 1
                /\ Occurrences("ESC_CLEAR") = 1
           ELSE Occurrences("ESC_RED") = 0 /\ Occurrences("ESC_CLEAR") = 0

\* C15, amended: in the first row of the selected message CurrentColor
\* comes right after the gutter "<Username>: "; the rest as claimed.
C15_MarkersAroundContent ==
    op = "RenderMessage"
        => IF current = History[1].UUID
           THEN /\ HasPrefix(Rows[1],
                            History[1].Username \o <<":", " ">> \o CurrentColor)
                /\ HasSuffix(Rows[Len(Rows)], ClearColor)
                /\ Occurrences("ESC_RED") = 1
                /\ Occurrences("ESC_CLEAR") = 1
           ELSE Occurrences("ESC_RED") = 0 /\ Occurrences("ESC_CLEAR") = 0

\* The selected message has been rendered on three rows.
C15_Witness ==
    /\ op = "RenderMessage"
    /\ current = History[1].UUID
    /\ History[1].Username = <<"x">>
    /\ Len(written) = 3

\* C16: a CursorDown with len(History) >= 2 and currentIndex+1 < len(History)
\* adds exactly 1 to currentIndex, a CursorUp with len(History) >= 2 and
\* currentIndex > 0 takes exactly 1 off; both set current to the UUID of
\* History at the new index and leave History and the dimensions alone.
C16_EffectiveStep ==
    [][/\ (op' = "CursorDown" /\ Len(History) >= 2
              /\ currentIndex + 1 < Len(History))
          => /\ ~panicked'
             /\ currentIndex' = currentIndex + 1
             /\ current' = History'[currentIndex' + 1].UUID
             /\ UNCHANGED <<History, renderWidth, renderHeight>>
       /\ (op' = "CursorUp" /\ Len(History) >= 2 /\ currentIndex > 0)
          => /\ ~panicked'
             /\ currentIndex' = currentIndex - 1
             /\ current' = History'[currentIndex' + 1].UUID
             /\ UNCHANGED <<History, renderWidth, renderHeight>>]_vars

\* A CursorUp has just moved the cursor from a state in which the index
\* did not point at the selected message; now it does.
C16_Witness ==
    /\ op = "CursorUp"
    /\ DistinctUUIDs
    /\ currentIndex = pre[2] - 1
    /\ History[pre[2] + 1].UUID # pre[1]
    /\ History[currentIndex + 1].UUID = current

\* C17: Render changes none of History, current, currentIndex, renderWidth
\* and renderHeight, whatever the writer does; SetDimensions changes none
\* of History, current and currentIndex, and stores a height as the height
\* and a width as the width; no other operation changes the dimensions.
C17_RenderReadOnly ==
    [][/\ op' = "Render" => UNCHANGED hvars
       /\ op' = "SetDimensions"
          => /\ UNCHANGED <<History, current, currentIndex>>
             /\ renderHeight' \in Heights
             /\ renderWidth' \in Widths
       /\ op' # "SetDimensions" => UNCHANGED <<renderWidth, renderHeight>>]_vars

\* A Render whose second Write failed has returned, on a state with a
\* cursor off the top; SetDimensions had set a height of 2 before.
C17_Witness ==
    /\ op = "Render"
    /\ failAt = 2
    /\ renderHeight = 2
    /\ currentIndex = 1
    /\ Len(History) >= 2

\* C18: currentIndex >= 0, and currentIndex < len(History) once History
\* is not empty; the reads of History in CursorUp and CursorDown are in
\* bounds.
C18_IndexInStore ==
    /\ currentIndex >= 0
    /\ Len(History) > 0 => currentIndex < Len(History)
    /\ ~CursorUpPanics(History, currentIndex)
    /\ ~CursorDownPanics(History, currentIndex)
    /\ op \in {"CursorUp", "CursorDown"} => ~panicked

\* CursorDown has been called with the cursor on the last of three
\* messages, the case in which the index is nearest to leaving the store.
C18_Witness ==
    /\ op = "CursorDown"
    /\ Len(History) = 3
    /\ pre[2] = 2
    /\ currentIndex = 2

\* C19: when no Write fails and renderHeight >= 0, Render makes exactly
\* renderHeight Writes: with L the number of rows of the last renderHeight
\* messages, renderHeight - L empty buffers and then the L rows when
\* L < renderHeight, and renderHeight rows when L >= renderHeight.
C19_ExactlyHeightWrites ==
    (op = "Render" /\ failAt = 0 /\ renderHeight >= 0)
        => LET L == Len(VisibleRows) IN
           /\ ~panicked
           /\ Len(written) = renderHeight
           /\ IF L < renderHeight
              THEN /\ \A i \in 1..(renderHeight - L) : written[i].bytes = <<>>
                   /\ \A i \in 1..L :
                         written[renderHeight - L + i].bytes = VisibleRows[i]
              ELSE \A i \in 1..renderHeight :
                      /\ written[i].bytes # <<>>
                      /\ written[i].bytes = VisibleRows[L - renderHeight + i]

\* Render has written one empty buffer and then the one row of the only
\* message stored.
C19_Witness ==
    /\ op = "Render"
    /\ failAt = 0
    /\ renderHeight = 2
    /\ Len(History) = 1
    /\ Len(written) = 2
    /\ written[1].bytes = <<>>
    /\ written[2].bytes # <<>>

\* C20: CursorUp, called again and again with no New in between, ends with
\* Current() = History[0].UUID.  Every effective CursorUp lowers
\* currentIndex, so the calls end in a state that CursorUp leaves as it
\* is; the claim is that Current() is the oldest message's UUID there.
\* Stated of the states in which no sort has reordered equal timestamps.
C20_ScrollUpReachesTop ==
    (/\ op = "CursorUp"
     /\ ~panicked
     /\ current # ""
     /\ ArrivalOrderKept
     /\ CursorUpStep(History, current, currentIndex) = <<current, currentIndex>>)
        => current = History[1].UUID

====
